---- MODULE Spec2Model ----
(***************************************************************************)
(* Model of AppComponent (src/src/app/app.component.ts): a table over a    *)
(* static dataset with a debounced search box, column sorting and          *)
(* pagination.                                                             *)
(*                                                                         *)
(* Representation.                                                         *)
(*  - A string is a sequence of one-character strings (<<"H","o">>).       *)
(*  - A record of the dataset is an object; arrays hold references, so an  *)
(*    array is a sequence of record identities 1..NumRecords and Rec(id)   *)
(*    gives the (immutable) fields of the object.                          *)
(*  - JavaScript numbers that take part in the page arithmetic are kept in *)
(*    tenths (fixed point, one decimal digit): currentPage = 15 stands for *)
(*    the number 1.5.  totalPages is always an integer and is kept as one. *)
(*  - null is Null (for texts) and "null" (for the sort state).            *)
(***************************************************************************)
EXTENDS Integers, Sequences, FiniteSets, TLC

(* ----------------------------- bounds ---------------------------------- *)
NumRecords == 25        \* records of the dataset
TickStep == 150         \* largest amount of time one Tick lets pass

(* ------------------------- program constants --------------------------- *)
pageSize == 10
DebounceTime == 300

(* ------------------------------ strings -------------------------------- *)
Null == <<"null">>      \* the value null where a string is expected

Digits == <<"0", "1", "2", "3", "4", "5", "6", "7", "8", "9">>

IsDigit(c) == \E d \in 1..10 : Digits[d] = c

DigitValue(c) == (CHOOSE d \in 1..10 : Digits[d] = c) - 1

\* String.prototype.toLowerCase, one character
LowerChar(c) ==
    CASE c = "H" -> "h"
      [] c = "O" -> "o"
      [] c = "T" -> "t"
      [] c = "A" -> "a"
      [] c = "U" -> "u"
      [] c = "F" -> "f"
      [] c = "C" -> "c"
      [] c = "V" -> "v"
      [] c = "X" -> "x"
      [] c = "Z" -> "z"
      [] OTHER -> c

toLowerCase(s) == [i \in 1..Len(s) |-> LowerChar(s[i])]

\* String.prototype.includes: t occurs in s at some offset
includes(s, t) ==
    \E off \in 0..(Len(s) - Len(t)) : \A i \in 1..Len(t) : s[off + i] = t[i]

\* Number.prototype.toString of a non-negative integer: its decimal digits
RECURSIVE toString(_)
toString(n) ==
    IF n < 10 THEN <<Digits[n + 1]>>
    ELSE toString(n \div 10) \o <<Digits[(n % 10) + 1]>>

(* ------------------------------ dataset -------------------------------- *)
Makes == << <<"T", "o">>, <<"a", "u">>, <<"F", "o">> >>

Models == << <<"c", "v">>, <<"A", "4">>, <<"x", "5">>, <<"C", "V">> >>

\* The fields of the record object with identity id.  Two makes out of every
\* fourteen records are "Ho"; makes and models repeat (equal sort keys),
\* prices are pairwise different and not in dataset order.
Rec(id) ==
    [make  |-> IF id % 14 = 3 THEN <<"H", "o">> ELSE Makes[(id % 3) + 1],
     model |-> Models[(id % 4) + 1],
     price |-> ((id * 7) % 31) * 100 + 40 + id]

\* DATA: the array imported from ./data
DATA == [i \in 1..NumRecords |-> i]


(* --------------------------- number helpers ---------------------------- *)
Min(a, b) == IF a < b THEN a ELSE b

Max(a, b) == IF a > b THEN a ELSE b

\* the integer n as a number in tenths
Tenths(n) == n * 10

\* Math.ceil(a / b) for integers a >= 0, b > 0
ceilDiv(a, b) == (a + b - 1) \div b

\* ToIntegerOrInfinity of a number in tenths: truncation towards zero
Trunc(t) == IF t >= 0 THEN t \div 10 ELSE -((-t) \div 10)

\* Array.prototype.slice(start, end), start and end numbers in tenths
slice(arr, start, end) ==
    LET len  == Len(arr)
        rs   == Trunc(start)
        re   == Trunc(end)
        from == IF rs < 0 THEN Max(len + rs, 0) ELSE Min(rs, len)
        to   == IF re < 0 THEN Max(len + re, 0) ELSE Min(re, len)
    IN  IF from >= to THEN <<>> ELSE SubSeq(arr, from + 1, to)

(* ------------------------- Number(select.value) ------------------------ *)
NaN == [nan |-> TRUE, tenths |-> 0]

Num(t) == [nan |-> FALSE, tenths |-> t]

IsSpace(c) == c = " "

RECURSIVE TrimLeft(_)
TrimLeft(s) == IF s # <<>> /\ IsSpace(Head(s)) THEN TrimLeft(Tail(s)) ELSE s

RECURSIVE TrimRight(_)
TrimRight(s) ==
    IF s # <<>> /\ IsSpace(s[Len(s)]) THEN TrimRight(SubSeq(s, 1, Len(s) - 1)) ELSE s

AllDigits(s) == \A i \in 1..Len(s) : IsDigit(s[i])

RECURSIVE DigitsValue(_)
DigitsValue(s) ==
    IF s = <<>> THEN 0
    ELSE DigitsValue(SubSeq(s, 1, Len(s) - 1)) * 10 + DigitValue(s[Len(s)])

\* an unsigned decimal literal with at most one digit after the point
UnsignedNumber(s) ==
    IF s # <<>> /\ AllDigits(s) THEN Num(Tenths(DigitsValue(s)))
    ELSE IF /\ Len(s) >= 3
            /\ s[Len(s) - 1] = "."
            /\ AllDigits(SubSeq(s, 1, Len(s) - 2))
            /\ IsDigit(s[Len(s)])
         THEN Num(Tenths(DigitsValue(SubSeq(s, 1, Len(s) - 2))) + DigitValue(s[Len(s)]))
         ELSE NaN

\* Number(string): white space is trimmed, the empty string is 0, a decimal
\* literal is its value and every other string is NaN
Number(raw) ==
    LET s == TrimRight(TrimLeft(raw))
    IN  IF s = <<>> THEN Num(0)
        ELSE IF Head(s) = "-"
             THEN LET u == UnsignedNumber(Tail(s))
                  IN  IF u.nan THEN NaN ELSE Num(-u.tenths)
             ELSE UnsignedNumber(s)

\* x >= y and x < y of JavaScript: false when x is NaN (y in tenths)
GreaterEq(x, y) == ~x.nan /\ x.tenths >= y

LessThan(x, y) == ~x.nan /\ x.tenths < y

(* --------------------------- localeCompare ----------------------------- *)
\* collation order of the characters in use, case ignored: digits, then letters
CollationOrder ==
    <<"0", "1", "2", "3", "4", "5", "6", "7", "8", "9",
      "a", "c", "f", "h", "o", "t", "u", "v", "x", "z">>

PrimaryWeight(c) ==
    CHOOSE k \in 1..Len(CollationOrder) : CollationOrder[k] = LowerChar(c)

\* lower case sorts before upper case when the letters are the same
CaseWeight(c) == IF LowerChar(c) = c THEN 0 ELSE 1

RECURSIVE LexCompare(_, _)
LexCompare(ka, kb) ==
    IF ka = <<>> /\ kb = <<>> THEN 0
    ELSE IF ka = <<>> THEN -1
    ELSE IF kb = <<>> THEN 1
    ELSE IF Head(ka) < Head(kb) THEN -1
    ELSE IF Head(ka) > Head(kb) THEN 1
    ELSE LexCompare(Tail(ka), Tail(kb))

\* String.prototype.localeCompare: letters first, case as the tie-break
localeCompare(a, b) ==
    LET p == LexCompare([i \in 1..Len(a) |-> PrimaryWeight(a[i])],
                        [i \in 1..Len(b) |-> PrimaryWeight(b[i])])
    IN  IF p # 0 THEN p
        ELSE LexCompare([i \in 1..Len(a) |-> CaseWeight(a[i])],
                        [i \in 1..Len(b) |-> CaseWeight(b[i])])

(* ------------------------------- inputs --------------------------------- *)
\* texts typed into the search box
SearchTexts == { <<>>, <<"h", "O">>, <<"4">>, <<"z">> }

\* columns whose header is clicked; "year" is no field of the records
SortAttributes == {"make", "price", "year"}

\* values of the page selector as they arrive in the change event
RawValues ==
    { <<>>, <<" ">>, <<"a">>, <<"1">>, <<"7">>, <<"-", "1">>, <<"1", ".", "5">> }

(* ------------------------------- state --------------------------------- *)
VARIABLES
    data,                  \* this.data: the dataset array
    searchInput,           \* this.searchInput.value
    dataSubject,           \* this.dataSubject.value: the page source
    subjectIsData,         \* this.dataSubject.value === this.data
    view,                  \* the page last delivered by sortedData
    viewTotalPages,        \* this.totalPages when that page was delivered
    currentSortDirection,
    currentSortAttribute,
    currentPage,           \* in tenths
    totalPages,
    pending,               \* debounceTime: <<>> or <<value waiting for the timer>>
    timerLeft,             \* debounceTime: time left on the timer
    lastEmitted,           \* distinctUntilChanged: <<>> or <<previous value>>
    quiet,                 \* time since searchInput last changed, up to DebounceTime
    lastOp                 \* the handler that ran last, its argument, whether it applied

vars ==
    <<data, searchInput, dataSubject, subjectIsData, view, viewTotalPages,
      currentSortDirection, currentSortAttribute, currentPage, totalPages,
      pending, timerLeft, lastEmitted, quiet, lastOp>>

\* the fields of the component, as one record
This ==
    [data |-> data, searchInput |-> searchInput, dataSubject |-> dataSubject,
     subjectIsData |-> subjectIsData, view |-> view,
     viewTotalPages |-> viewTotalPages,
     currentSortDirection |-> currentSortDirection,
     currentSortAttribute |-> currentSortAttribute,
     currentPage |-> currentPage, totalPages |-> totalPages]

\* the state of the valueChanges pipe, as one record
Pipe == [pending |-> pending, timerLeft |-> timerLeft, lastEmitted |-> lastEmitted]

(* ------------------------------ the pipe -------------------------------- *)
\* sortedData: map(data => data.slice(currentPage * pageSize, (currentPage + 1) * pageSize))
pageOf(this, arr) ==
    slice(arr, this.currentPage * pageSize, (this.currentPage + 10) * pageSize)

\* dataSubject.next(arr): the value is stored and the subscriber of sortedData
\* receives its page, and sees totalPages as it is at that moment
next(this, arr, isData) ==
    [this EXCEPT !.dataSubject = arr,
                 !.subjectIsData = isData,
                 !.view = pageOf(this, arr),
                 !.viewTotalPages = this.totalPages]

(* ------------------------------ searchData ------------------------------ *)
\* if (text): null and the empty string are falsy
Truthy(text) == text # Null /\ text # <<>>

\* (mutant) the text is not lower-cased before the comparison
itemMatches_caseSensitive(id, text) ==
    \/ includes(toLowerCase(Rec(id).make), text)
    \/ includes(toLowerCase(Rec(id).model), text)
    \/ includes(toString(Rec(id).price), text)

\* the callback of this.data.filter
itemMatches(id, text) ==
    IF \/ includes(toLowerCase(Rec(id).make), toLowerCase(text))
       \/ includes(toLowerCase(Rec(id).model), toLowerCase(text))
    THEN TRUE
    ELSE IF includes(toString(Rec(id).price), text) THEN TRUE
    ELSE FALSE

\* the callback's results, computed once for every text and record
matchTable ==
    [text \in SearchTexts \cup {Null} |->
        [id \in 1..NumRecords |-> itemMatches(id, text)]]

\* the array searchData returns, and whether it is this.data itself
filteredData(this, text) ==
    IF Truthy(text)
    THEN SelectSeq(this.data, LAMBDA id : matchTable[text][id])
    ELSE this.data

\* (mutant) totalPages counts full pages only
searchData_fullPages(this, text) ==
    [this     |-> [this EXCEPT !.totalPages =
                                   Len(filteredData(this, text)) \div pageSize],
     ret      |-> filteredData(this, text),
     retIsData |-> ~Truthy(text)]

\* searchData(text): sets totalPages and returns the filtered array
searchData(this, text) ==
    [this     |-> [this EXCEPT !.totalPages =
                                   ceilDiv(Len(filteredData(this, text)), pageSize)],
     ret      |-> filteredData(this, text),
     retIsData |-> ~Truthy(text)]

\* (mutant) the filtered array is published before totalPages is set
onSearchText_publishFirst(this, text) ==
    searchData(next(this, filteredData(this, text), ~Truthy(text)), text).this

\* (mutant) a new search goes back to the first page
onSearchText_resetsPage(this, text) ==
    LET r == searchData([this EXCEPT !.currentPage = 0], text)
    IN  next(r.this, r.ret, r.retIsData)

\* the subscriber of the debounced valueChanges
onSearchText(this, text) ==
    LET r == searchData(this, text)
    IN  next(r.this, r.ret, r.retIsData)

\* (mutant) the page is cut from the array published last, without a new filter
updateDisplayedData_cached(this) == next(this, this.dataSubject, this.subjectIsData)

updateDisplayedData(this) ==
    LET r == searchData(this, this.searchInput)
    IN  next(r.this, r.ret, r.retIsData)

(* ------------------------------ pagination ------------------------------ *)
\* (mutant) off by one: the last page can still be left
nextPageGuard_offByOne(this) == this.currentPage <= Tenths(this.totalPages - 1)

nextPageGuard(this) == this.currentPage < Tenths(this.totalPages - 1)

nextPage(this) ==
    IF nextPageGuard(this)
    THEN updateDisplayedData([this EXCEPT !.currentPage = @ + 10])
    ELSE this

previousPageGuard(this) == this.currentPage > 0

previousPage(this) ==
    IF previousPageGuard(this)
    THEN updateDisplayedData([this EXCEPT !.currentPage = @ - 10])
    ELSE this

jumpToPageGuard(this, raw) ==
    /\ GreaterEq(Number(raw), 0)
    /\ LessThan(Number(raw), Tenths(this.totalPages))

jumpToPage(this, raw) ==
    IF jumpToPageGuard(this, raw)
    THEN updateDisplayedData([this EXCEPT !.currentPage = Number(raw).tenths])
    ELSE this

(* -------------------------------- sortData ------------------------------ *)
\* typeof a[sortAttribute]
TypeOf(id, sortAttribute) ==
    IF sortAttribute \in {"make", "model"} THEN "string"
    ELSE IF sortAttribute = "price" THEN "number"
    ELSE "undefined"

\* (mutant) the comparator does not negate the result for "desc"
compare_ignoresDirection(a, b, sortAttribute, direction) ==
    IF TypeOf(a, sortAttribute) = "string" /\ TypeOf(b, sortAttribute) = "string"
    THEN localeCompare(Rec(a)[sortAttribute], Rec(b)[sortAttribute])
    ELSE IF TypeOf(a, sortAttribute) = "number" /\ TypeOf(b, sortAttribute) = "number"
         THEN Rec(a)[sortAttribute] - Rec(b)[sortAttribute]
         ELSE 0

\* the comparator handed to sortedArray.sort
compare(a, b, sortAttribute, direction) ==
    LET comparison ==
            IF TypeOf(a, sortAttribute) = "string" /\ TypeOf(b, sortAttribute) = "string"
            THEN localeCompare(Rec(a)[sortAttribute], Rec(b)[sortAttribute])
            ELSE IF /\ TypeOf(a, sortAttribute) = "number"
                    /\ TypeOf(b, sortAttribute) = "number"
                 THEN Rec(a)[sortAttribute] - Rec(b)[sortAttribute]
                 ELSE 0
    IN  IF direction = "desc" THEN -comparison ELSE comparison

\* the comparator's results, computed once for every pair of records
compareTable ==
    [sortAttribute \in SortAttributes |->
        [direction \in {"asc", "desc"} |->
            [a \in 1..NumRecords |->
                [b \in 1..NumRecords |-> compare(a, b, sortAttribute, direction)]]]]

\* (mutant) x goes in front of the elements whose keys equal its own
RECURSIVE insertionPoint_beforeEquals(_, _, _, _, _)
insertionPoint_beforeEquals(arr, k, x, sortAttribute, direction) ==
    IF k = 0 THEN 0
    ELSE IF compareTable[sortAttribute][direction][arr[k]][x] < 0 THEN k
    ELSE insertionPoint_beforeEquals(arr, k - 1, x, sortAttribute, direction)

\* how many elements of the sorted array arr[1..k] stay in front of x: those up
\* to the last one that does not sort after x
RECURSIVE insertionPoint(_, _, _, _, _)
insertionPoint(arr, k, x, sortAttribute, direction) ==
    IF k = 0 THEN 0
    ELSE IF compareTable[sortAttribute][direction][arr[k]][x] <= 0 THEN k
    ELSE insertionPoint(arr, k - 1, x, sortAttribute, direction)

insert(arr, x, sortAttribute, direction) ==
    LET k == insertionPoint(arr, Len(arr), x, sortAttribute, direction)
    IN  SubSeq(arr, 1, k) \o <<x>> \o SubSeq(arr, k + 1, Len(arr))

\* the elements arr[i..] inserted one after the other into the sorted array done
RECURSIVE sortFrom(_, _, _, _, _)
sortFrom(arr, i, done, sortAttribute, direction) ==
    IF i > Len(arr) THEN done
    ELSE sortFrom(arr, i + 1, insert(done, arr[i], sortAttribute, direction),
                  sortAttribute, direction)

\* Array.prototype.sort with a comparator: a stable sort
sort(arr, sortAttribute, direction) ==
    sortFrom(arr, 1, <<>>, sortAttribute, direction)

\* (mutant) a new column keeps the direction of the previous one
sortState_keepsDirection(this, sortAttribute) ==
    IF this.currentSortAttribute = sortAttribute
    THEN [this EXCEPT !.currentSortDirection =
                          IF this.currentSortDirection = "asc" THEN "desc" ELSE "asc"]
    ELSE [this EXCEPT !.currentSortAttribute = sortAttribute,
                      !.currentSortDirection = IF @ = "null" THEN "asc" ELSE @]

\* the sort state after the toggle-or-set at the head of sortData
sortState(this, sortAttribute) ==
    IF this.currentSortAttribute = sortAttribute
    THEN [this EXCEPT !.currentSortDirection =
                          IF this.currentSortDirection = "asc" THEN "desc" ELSE "asc"]
    ELSE [this EXCEPT !.currentSortAttribute = sortAttribute,
                      !.currentSortDirection = "asc"]

\* (mutant) the published array is sorted in place, without the copy
sortData_inPlace(this, sortAttribute) ==
    LET t == sortState(this, sortAttribute)
        sorted == sort(this.dataSubject, sortAttribute, t.currentSortDirection)
    IN  next([t EXCEPT !.data = IF this.subjectIsData THEN sorted ELSE @],
             sorted, this.subjectIsData)

sortData(this, sortAttribute) ==
    LET sortedArray == this.dataSubject     \* a copy: [...this.dataSubject.value]
        t == sortState(this, sortAttribute)
    IN  next(t, sort(sortedArray, sortAttribute, t.currentSortDirection), FALSE)

(* ----------------------- debounced valueChanges ------------------------- *)
\* (mutant) a value that arrives while one is waiting does not restart the timer
debounceTime_noRestart(pipe, value) ==
    [pipe EXCEPT !.pending = <<value>>,
                 !.timerLeft = IF pipe.pending = <<>> THEN DebounceTime ELSE @]

\* debounceTime(300) receives a value: it replaces the waiting one and the
\* timer starts again
debounceTime(pipe, value) ==
    [pipe EXCEPT !.pending = <<value>>, !.timerLeft = DebounceTime]

\* distinctUntilChanged(): does the value differ from the previous one it let through
distinctUntilChanged(pipe, value) == pipe.lastEmitted # <<value>>

(* ------------------------------- actions -------------------------------- *)
Op(name, applied, arg) == [op |-> name, applied |-> applied, arg |-> arg]

SetThis(this) ==
    /\ data' = this.data
    /\ searchInput' = this.searchInput
    /\ dataSubject' = this.dataSubject
    /\ subjectIsData' = this.subjectIsData
    /\ view' = this.view
    /\ viewTotalPages' = this.viewTotalPages
    /\ currentSortDirection' = this.currentSortDirection
    /\ currentSortAttribute' = this.currentSortAttribute
    /\ currentPage' = this.currentPage
    /\ totalPages' = this.totalPages

SetPipe(pipe) ==
    /\ pending' = pipe.pending
    /\ timerLeft' = pipe.timerLeft
    /\ lastEmitted' = pipe.lastEmitted

Init ==
    /\ data = DATA
    /\ searchInput = Null
    /\ dataSubject = DATA
    /\ subjectIsData = TRUE
    /\ currentSortDirection = "null"
    /\ currentSortAttribute = "null"
    /\ currentPage = 0
    /\ totalPages = ceilDiv(Len(DATA), pageSize)
    /\ view = slice(DATA, 0, Tenths(pageSize))
    /\ viewTotalPages = ceilDiv(Len(DATA), pageSize)
    /\ pending = <<>>
    /\ timerLeft = 0
    /\ lastEmitted = <<>>
    /\ quiet = DebounceTime
    /\ lastOp = Op("init", FALSE, <<>>)

\* the user changes the text of the search box: valueChanges emits it
SetSearchText ==
    \E text \in SearchTexts :
        /\ SetThis([This EXCEPT !.searchInput = text])
        /\ SetPipe(debounceTime(Pipe, text))
        /\ quiet' = 0
        /\ lastOp' = Op("type", pending # <<>>, <<>>)

\* time passes and the debounce timer does not run out
Tick ==
    /\ pending # <<>>
    /\ timerLeft > TickStep
    /\ SetPipe([Pipe EXCEPT !.timerLeft = @ - TickStep])
    /\ SetThis(This)
    /\ quiet' = Min(quiet + TickStep, DebounceTime)
    /\ lastOp' = Op("tick", FALSE, <<>>)

\* the debounce timer runs out: the waiting value goes to distinctUntilChanged
\* and, when that lets it through, to the subscriber
DebounceFire ==
    /\ pending # <<>>
    /\ timerLeft <= TickStep
    /\ LET value == pending[1]
           pass  == distinctUntilChanged(Pipe, value)
       IN  /\ SetPipe([pending |-> <<>>, timerLeft |-> 0,
                       lastEmitted |-> IF pass THEN <<value>> ELSE lastEmitted])
           /\ SetThis(IF pass THEN onSearchText(This, value) ELSE This)
           /\ quiet' = Min(quiet + timerLeft, DebounceTime)
           /\ lastOp' = Op(IF pass THEN "emit" ELSE "suppress", pass, <<>>)

NextPage ==
    /\ SetThis(nextPage(This))
    /\ SetPipe(Pipe)
    /\ UNCHANGED quiet
    /\ lastOp' = Op("nextPage", nextPageGuard(This), <<>>)

PreviousPage ==
    /\ SetThis(previousPage(This))
    /\ SetPipe(Pipe)
    /\ UNCHANGED quiet
    /\ lastOp' = Op("previousPage", previousPageGuard(This), <<>>)

JumpToPage ==
    \E raw \in RawValues :
        /\ SetThis(jumpToPage(This, raw))
        /\ SetPipe(Pipe)
        /\ UNCHANGED quiet
        /\ lastOp' = Op("jumpToPage", jumpToPageGuard(This, raw), raw)

SortData ==
    \E sortAttribute \in SortAttributes :
        /\ SetThis(sortData(This, sortAttribute))
        /\ SetPipe(Pipe)
        /\ UNCHANGED quiet
        /\ lastOp' = Op("sortData", TRUE, <<sortAttribute>>)

Next ==
    \/ SetSearchText
    \/ Tick
    \/ DebounceFire
    \/ NextPage
    \/ PreviousPage
    \/ JumpToPage
    \/ SortData

Spec == Init /\ [][Next]_vars

(* ======================== properties of the claims ====================== *)
NavOps == {"nextPage", "previousPage", "jumpToPage"}

\* the last handler changed the page: a navigation call whose guard held
PageChanged == lastOp.op \in NavOps /\ lastOp.applied

\* the records of the dataset whose make or model contains the text, case
\* ignored, or whose price in decimal digits contains it; all of them for no text
ExpectedMatch ==
    [text \in SearchTexts \cup {Null} |->
        [id \in 1..NumRecords |->
            \/ text = Null
            \/ text = <<>>
            \/ includes(toLowerCase(Rec(id).make), toLowerCase(text))
            \/ includes(toLowerCase(Rec(id).model), toLowerCase(text))
            \/ includes(toString(Rec(id).price), text)]]

ExpectedIds(text) == {id \in 1..NumRecords : ExpectedMatch[text][id]}

Range(arr) == {arr[i] : i \in 1..Len(arr)}

PositionIn(arr, x) == CHOOSE k \in 1..Len(arr) : arr[k] = x

\* sub lists its elements, each once, in the order arr has them
InOrderOf(sub, arr) ==
    /\ Range(sub) \subseteq Range(arr)
    /\ \A i \in 1..(Len(sub) - 1) : PositionIn(arr, sub[i]) < PositionIn(arr, sub[i + 1])

\* the page of arr at the current page index
PageSlice(arr) == slice(arr, currentPage * pageSize, (currentPage + 10) * pageSize)

\* filter by the text first, then sort by the current sort state
FilterThenSort(text) ==
    IF currentSortAttribute = "null"
    THEN filteredData(This, text)
    ELSE sort(filteredData(This, text), currentSortAttribute, currentSortDirection)

\* the texts "the current search text" can stand for: the text of the search
\* box and the text the debounce emitted last (null before the first emission)
CurrentSearchTexts ==
    {searchInput, IF lastEmitted = <<>> THEN Null ELSE lastEmitted[1]}

\* C1 (as claimed): after a debounced search emission, a sortData call or a
\* successful page change, the visible page is the page slice of the dataset
\* filtered by the current search text and then sorted by the current sort
\* state (whichever of the two texts is taken as the current one).
C1_PageIsFilterSortSlice ==
    (lastOp.op \in {"emit", "sortData"} \/ PageChanged)
        => \E text \in CurrentSearchTexts : view = PageSlice(FilterThenSort(text))

\* C2 (as claimed): in every reachable state 0 <= currentPage < max(1, totalPages).
C2_CurrentPageInRange ==
    /\ 0 <= currentPage
    /\ currentPage < Tenths(Max(1, totalPages))

\* the value coerces to a number outside [0, totalPages)
OutOfRange(raw) ==
    /\ ~Number(raw).nan
    /\ Number(raw).tenths < 0 \/ Number(raw).tenths >= Tenths(totalPages)

\* the step is a navigation call that asks for a page out of range
OutOfRangeCall ==
    \/ lastOp'.op = "nextPage" /\ currentPage = Tenths(totalPages - 1)
    \/ lastOp'.op = "previousPage" /\ currentPage = 0
    \/ lastOp'.op = "jumpToPage" /\ OutOfRange(lastOp'.arg)

\* C3: nextPage on the last page, previousPage on page 0 and jumpToPage(n) with
\* n outside [0, totalPages) leave currentPage, totalPages, the sort state, the
\* page source and the visible page as they were.
C3_OutOfRangeNavigationIsNoOp ==
    [][OutOfRangeCall =>
          UNCHANGED <<currentPage, totalPages, currentSortAttribute,
                      currentSortDirection, dataSubject, subjectIsData, view,
                      viewTotalPages, data, searchInput>>]_vars

\* C3 witness: with three pages, a nextPage call on page 2 has been refused.
C3_Witness ==
    /\ lastOp = Op("nextPage", FALSE, <<>>)
    /\ totalPages = 3
    /\ currentPage = Tenths(2)

\* the text whose filter result the last handler published
PublishedText == IF lastOp.op = "emit" THEN lastEmitted[1] ELSE searchInput

\* C4: the array searchData(t) returns holds a record iff t is empty or absent,
\* or make or model contains t ignoring case, or the decimal string of the price
\* contains t; and it lists them in the order of the dataset.
C4_SearchDataResult ==
    (lastOp.op = "emit" \/ PageChanged) =>
        /\ Range(dataSubject) = ExpectedIds(PublishedText)
        /\ Len(dataSubject) = Cardinality(ExpectedIds(PublishedText))
        /\ InOrderOf(dataSubject, data)

\* C4 witness: a search for "hO" was emitted and found the two "Ho" records.
C4_Witness ==
    /\ lastOp.op = "emit"
    /\ lastEmitted = << <<"h", "O">> >>
    /\ Len(dataSubject) = 2
    /\ \A i \in 1..Len(dataSubject) : Rec(dataSubject[i]).make = <<"H", "o">>

\* what a filter/derive cycle writes
CycleVars ==
    <<dataSubject, subjectIsData, view, viewTotalPages, totalPages, currentPage,
      currentSortAttribute, currentSortDirection, data>>

\* C5: of a burst of search-text changes, each within the 300-unit window of
\* the one before, only the last value triggers a filter/derive cycle (the
\* cycle runs when the text has been quiet for the whole window, with the text
\* of the search box); and a value equal to the one emitted before triggers none.
C5_Debounce ==
    [][/\ lastOp'.op = "emit" =>
            /\ quiet' = DebounceTime
            /\ lastEmitted' = <<searchInput>>
            /\ lastEmitted' # lastEmitted
            /\ dataSubject' = filteredData(This, searchInput)
       /\ lastOp'.op \in {"type", "tick", "suppress"} =>
            UNCHANGED <<CycleVars, lastEmitted>>
       /\ (lastOp'.op \in {"emit", "suppress"} /\ pending = lastEmitted) =>
            lastOp'.op = "suppress"]_vars

\* C5 witness: the window elapsed on a value equal to the one emitted before,
\* and it was dropped.
C5_Witness ==
    /\ lastOp.op = "suppress"
    /\ lastEmitted = <<searchInput>>
    /\ quiet = DebounceTime
    /\ pending = <<>>

\* C6: when the page derived from a search is delivered, totalPages already is
\* ceil(m' / pageSize) for the m' records the text matches.
C6_TotalPagesBeforePublish ==
    lastOp.op = "emit" =>
        /\ viewTotalPages = ceilDiv(Cardinality(ExpectedIds(lastEmitted[1])), pageSize)
        /\ totalPages = viewTotalPages

\* C6 witness: a search that matches two records was emitted and its page was
\* delivered with totalPages = 1.
C6_Witness ==
    /\ lastOp.op = "emit"
    /\ Cardinality(ExpectedIds(lastEmitted[1])) = 2
    /\ viewTotalPages = 1
    /\ Len(view) = 2

Reverse(arr) == [i \in 1..Len(arr) |-> arr[Len(arr) + 1 - i]]

\* the step is the second of two sortData calls in a row with the same column,
\* the first of which sorted ascending
SecondSortOfSameColumn ==
    /\ lastOp.op = "sortData"
    /\ lastOp'.op = "sortData"
    /\ lastOp'.arg = lastOp.arg
    /\ currentSortDirection = "asc"

\* C7 (as claimed): the second of two sortData(attr) calls in a row yields the
\* exact reverse of the sequence the first call produced, for every dataset.
C7_SecondSortIsReverse ==
    [][SecondSortOfSameColumn => dataSubject' = Reverse(dataSubject)]_vars

\* no two elements of arr have sort keys the comparator finds equal
KeysDistinct(arr, sortAttribute) ==
    \A i, j \in 1..Len(arr) :
        i < j => compareTable[sortAttribute]["asc"][arr[i]][arr[j]] # 0

\* res is arr in descending key order, elements with equal keys in arr's order
StableDescending(res, arr, sortAttribute) ==
    /\ Len(res) = Len(arr)
    /\ Range(res) = Range(arr)
    /\ \A i \in 1..(Len(res) - 1) :
          LET c == compareTable[sortAttribute]["asc"][res[i]][res[i + 1]]
          IN  \/ c > 0
              \/ c = 0 /\ PositionIn(arr, res[i]) < PositionIn(arr, res[i + 1])

\* C7 (amended): the second call yields the exact reverse of the first call's
\* sequence when the sort keys in it are pairwise different; in every case it
\* is that sequence in descending key order with records of equal keys kept
\* in the order the first call gave them.
C7_SecondSortIsStableDescending ==
    [][SecondSortOfSameColumn =>
          /\ currentSortDirection' = "desc"
          /\ StableDescending(dataSubject', dataSubject, lastOp'.arg[1])
          /\ KeysDistinct(dataSubject, lastOp'.arg[1])
                => dataSubject' = Reverse(dataSubject)]_vars

\* C7 witness: price was sorted a second time and the page source, of more than
\* ten records with different prices, is in descending price order.
C7_Witness ==
    /\ lastOp = Op("sortData", TRUE, <<"price">>)
    /\ currentSortDirection = "desc"
    /\ Len(dataSubject) > pageSize
    /\ \A i \in 1..(Len(dataSubject) - 1) :
          Rec(dataSubject[i]).price > Rec(dataSubject[i + 1]).price

\* C8: sortData(attr) with attr the current sort column flips the direction and
\* keeps the column; with another attr it sets the column to attr and the
\* direction to ascending, whatever the direction was.
C8_SortStateUpdate ==
    [][lastOp'.op = "sortData" =>
          IF lastOp'.arg[1] = currentSortAttribute
          THEN /\ currentSortAttribute' = currentSortAttribute
               /\ currentSortDirection \in {"asc", "desc"}
               /\ currentSortDirection' \in {"asc", "desc"}
               /\ currentSortDirection' # currentSortDirection
          ELSE /\ currentSortAttribute' = lastOp'.arg[1]
               /\ currentSortDirection' = "asc"]_vars

\* C8 witness: make was clicked again and the direction is now descending.
C8_Witness ==
    /\ lastOp = Op("sortData", TRUE, <<"make">>)
    /\ currentSortAttribute = "make"
    /\ currentSortDirection = "desc"

\* C9 (as claimed): after a search emission whose text matches between 1 and
\* pageSize records, the visible page holds exactly the matching records,
\* totalPages is 1 and currentPage is 0.
C9_SmallSearchShowsMatches ==
    (/\ lastOp.op = "emit"
     /\ Cardinality(ExpectedIds(lastEmitted[1])) \in 1..pageSize)
        => /\ Range(view) = ExpectedIds(lastEmitted[1])
           /\ Len(view) = Cardinality(ExpectedIds(lastEmitted[1]))
           /\ totalPages = 1
           /\ currentPage = 0

\* the raw value is no number: empty, white space, or not a numeric literal
NonNumeric(raw) == TrimRight(TrimLeft(raw)) = <<>> \/ Number(raw).nan

\* C10 (as claimed): jumpToPage with a non-numeric raw value, the empty string
\* and white space included, leaves currentPage and the visible page unchanged.
C10_NonNumericJumpIsNoOp ==
    [][(lastOp'.op = "jumpToPage" /\ NonNumeric(lastOp'.arg))
          => UNCHANGED <<currentPage, view>>]_vars

\* C11: the dataset has the same records in the same order as at construction
\* in every reachable state; sortData sorts a copy, also when the page source
\* is the dataset array itself.
C11_DatasetUnchanged == data = DATA

\* C11 witness: sortData ran on the unfiltered page source and reordered it,
\* and the page source is no longer the dataset array.
C11_Witness ==
    /\ lastOp.op = "sortData"
    /\ ~Truthy(searchInput)
    /\ Len(dataSubject) = Len(data)
    /\ dataSubject # data
    /\ ~subjectIsData

\* res holds the elements of arr, each once
IsPermutation(res, arr) ==
    /\ Len(res) = Len(arr)
    /\ Range(res) = Range(arr)
    /\ Cardinality(Range(res)) = Len(res)

\* res is in comparator order, and where the comparator gives 0 for two
\* neighbours they stand in the order arr has them
OrderedAndStable(res, arr, sortAttribute, direction) ==
    \A i \in 1..(Len(res) - 1) :
        LET c == compareTable[sortAttribute][direction][res[i]][res[i + 1]]
        IN  \/ c < 0
            \/ c = 0 /\ PositionIn(arr, res[i]) < PositionIn(arr, res[i + 1])

ExpectedFilter(text) == SelectSeq(data, LAMBDA id : ExpectedMatch[text][id])

\* C13: after a page change the visible page is the slice
\* [currentPage * pageSize, (currentPage + 1) * pageSize) of the dataset filtered
\* by the text the search box holds at the call, emitted by the debounce or not.
C13_PageChangeUsesCurrentText ==
    PageChanged => view = PageSlice(ExpectedFilter(searchInput))

\* C13 witness: the page was changed while a new text was waiting for the
\* debounce, and the page shown is cut from the records that text matches.
C13_Witness ==
    /\ PageChanged
    /\ pending = <<searchInput>>
    /\ lastEmitted # pending
    /\ Truthy(searchInput)
    /\ dataSubject = ExpectedFilter(searchInput)
    /\ Len(dataSubject) < Len(data)
    /\ view # <<>>

\* C14: a debounced search emission and a sortData call leave currentPage as
\* it was, whatever the size of the new page source.
C14_SearchAndSortKeepPage ==
    [][lastOp'.op \in {"emit", "sortData"} => currentPage' = currentPage]_vars

\* C14 witness: a search was emitted on page 2 and left one page of results,
\* and currentPage is still 2.
C14_Witness ==
    /\ lastOp.op = "emit"
    /\ currentPage = Tenths(2)
    /\ totalPages = 1

\* C15 (as claimed): when a search has left currentPage >= max(1, totalPages),
\* the next navigation call ends with 0 <= currentPage < max(1, totalPages).
C15_NextNavigationClamps ==
    [][(/\ lastOp.op = "emit"
        /\ currentPage >= Tenths(Max(1, totalPages))
        /\ lastOp'.op \in NavOps)
          => /\ 0 <= currentPage'
             /\ currentPage' < Tenths(Max(1, totalPages'))]_vars

\* C16 (as claimed): currentPage is a non-negative integer in every reachable
\* state, whatever raw value jumpToPage is given.
C16_CurrentPageIsNaturalNumber ==
    /\ currentPage >= 0
    /\ currentPage % 10 = 0

\* C17: in every reachable state totalPages is ceil(n / pageSize) for the
\* length n of the sequence published last as the page source.
C17_TotalPagesOfPageSource == totalPages = ceilDiv(Len(dataSubject), pageSize)

\* C17 witness: sortData published the fifteen records of a search, and
\* totalPages is 2.
C17_Witness ==
    /\ lastOp.op = "sortData"
    /\ Len(dataSubject) = 15
    /\ dataSubject # ExpectedFilter(<<"4">>)
    /\ totalPages = 2

\* C18 (as claimed): whenever no debounce timer is pending, the records of the
\* page source are exactly the dataset records the text of the search box matches.
C18_QuietSourceMatchesText ==
    pending = <<>> => Range(dataSubject) = ExpectedIds(searchInput)

\* C19 (as claimed): from currentPage < max(1, totalPages), a nextPage or
\* jumpToPage call that changes currentPage ends with currentPage < totalPages,
\* also while a changed search text is waiting for the debounce.
C19_PageChangeEndsInRange ==
    [][(/\ currentPage < Tenths(Max(1, totalPages))
        /\ lastOp'.op \in {"nextPage", "jumpToPage"}
        /\ currentPage' # currentPage)
          => currentPage' < Tenths(totalPages')]_vars

====
